---- MODULE Spec2Model ----
(***************************************************************************)
(* Model of src/main.rs: a population of double pendulums, each advanced   *)
(* once per frame by an RK4 step (DoublePendulum::update) inside the frame *)
(* loop of run().                                                          *)
(*                                                                         *)
(* f64 values are fixed-point integers with SCALE units per 1.0: angles in *)
(* milliradians, angular velocities in milliradians per second, time in    *)
(* milliseconds, degrees in millidegrees.  Division truncates toward zero. *)
(* sin and cos are evaluated by range reduction and a Taylor polynomial.   *)
(***************************************************************************)
EXTENDS Integers, Sequences, FiniteSets, TLC

\* ---------------------------------------------------------------- bounds
\* number of pendulums in the population (dp_count, 300 in the program)
DpCount == 2
\* frames simulated per run of run()
MaxFrames == 150
\* the host delivers an irregular frame time only every LagPeriod-th frame
LagPeriod == 48

\* ------------------------------------------------------- f64 arithmetic
SCALE == 1000
PI == 3142
TWO_PI == 2 * PI
HALF_PI == PI \div 2

Abs(x) == IF x < 0 THEN -x ELSE x

\* a / b on integers, truncated toward zero
Div(a, b) ==
  IF (a >= 0) = (b > 0) THEN Abs(a) \div Abs(b) ELSE -(Abs(a) \div Abs(b))

\* fixed-point product and quotient
Mul(a, b) == Div(a * b, SCALE)
FDiv(a, b) == Div(a * SCALE, b)

\* reduce an angle to (-PI, PI]
Wrap(x) ==
  LET r == x % TWO_PI IN IF r > PI THEN r - TWO_PI ELSE r

\* Taylor polynomials on [-PI/2, PI/2]
SinPoly(x) ==
  LET x2 == Mul(x, x)
      x3 == Mul(x2, x)
      x5 == Mul(x3, x2)
      x7 == Mul(x5, x2)
  IN x - Div(x3, 6) + Div(x5, 120) - Div(x7, 5040)

CosPoly(x) ==
  LET x2 == Mul(x, x)
      x4 == Mul(x2, x2)
      x6 == Mul(x4, x2)
  IN SCALE - Div(x2, 2) + Div(x4, 24) - Div(x6, 720)

Sin(x) ==
  LET r == Wrap(x)
  IN IF r > HALF_PI THEN SinPoly(PI - r)
     ELSE IF r < -HALF_PI THEN SinPoly(-PI - r)
     ELSE SinPoly(r)

Cos(x) ==
  LET r == Wrap(x)
  IN IF r > HALF_PI THEN -CosPoly(PI - r)
     ELSE IF r < -HALF_PI THEN -CosPoly(-PI - r)
     ELSE CosPoly(r)

\* f64::to_radians on millidegrees
to_radians(d) == Div(d * PI, 180 * SCALE)

\* ------------------------------------------------------------ constants
\* const g: f64 = 9.81
g == 9810
\* capacity of prev_angles
TraceCap == 144
\* largest timestep update integrates (0.02 s)
MaxTimestep == 20

\* -------------------------------------------------------------- inputs
\* a regular frame (12 ms)
NominalDt == 12
\* frame times of an irregular frame: the clock stepped back, no time
\* elapsed, a regular frame, exactly 0.02 s, a lagged frame
DtSet == {-12, 0, 12, 20, 24}
\* (angle1, angle2) in millidegrees: hanging at rest, and upright with the
\* random jitter of run()
AngleSet == {<<0, 0>>, <<180000, 180500>>}
\* per-pendulum offset of the second angle in millidegrees: 0.0001 degrees,
\* which is 0 at this resolution, and a quarter turn
OffsetSet == {0, 90000}

VARIABLES
  dp_vec,      \* run(): Vec<DoublePendulum>
  i,           \* run(): index of the update loop; DpCount when the loop is over
  frame_time,  \* the frame time of the current frame
  frame,       \* fps_counter.frame
  angle1,      \* run(): local angle1
  angle2,      \* run(): local angle2
  offset,      \* run(): local offset
  calls        \* history: per pendulum, update calls with timestep <= 0.02

vars == <<dp_vec, i, frame_time, frame, angle1, angle2, offset, calls>>

\* ------------------------------------------------------ DoublePendulum
new(origin_x, origin_y, length, theta1, theta2, color) ==
  [origin_x |-> origin_x, origin_y |-> origin_y, length |-> length,
   theta1 |-> theta1, theta2 |-> theta2, mass |-> SCALE,
   angular1 |-> 0, angular2 |-> 0, color |-> color,
   prev_angles |-> <<>>]

a1(self, theta1, theta2) == Div(Cos(theta1 - theta2), 2)

a2(self, theta1, theta2) == Cos(theta1 - theta2)

f1_gravity_cos(self, theta1, theta2, ang1, ang2) ==
  Div(Mul(-Mul(ang2, ang2), Sin(theta1 - theta2)), 2)
  - Mul(FDiv(g, self.length), Cos(theta1))

f1(self, theta1, theta2, ang1, ang2) ==
  Div(Mul(-Mul(ang2, ang2), Sin(theta1 - theta2)), 2)
  - Mul(FDiv(g, self.length), Sin(theta1))

f2(self, theta1, theta2, ang1, ang2) ==
  Mul(Mul(ang1, ang1), Sin(theta1 - theta2))
  - Mul(FDiv(g, self.length), Sin(theta2))

g1(self, t1, t2, ang1, ang2) ==
  FDiv(f1(self, t1, t2, ang1, ang2)
         - Mul(a1(self, t1, t2), f2(self, t1, t2, ang1, ang2)),
       SCALE - Mul(a1(self, t1, t2), a2(self, t1, t2)))

g2(self, t1, t2, ang1, ang2) ==
  FDiv(Mul(-a2(self, t1, t2), f1(self, t1, t2, ang1, ang2))
         + f2(self, t1, t2, ang1, ang2),
       SCALE - Mul(a1(self, t1, t2), a2(self, t1, t2)))

runge_kutta_func(self, params) ==
  <<params[3], params[4],
    g1(self, params[1], params[2], params[3], params[4]),
    g2(self, params[1], params[2], params[3], params[4])>>

\* DVec4 arithmetic
VAdd(u, v) == <<u[1] + v[1], u[2] + v[2], u[3] + v[3], u[4] + v[4]>>
VScale(s, v) == <<Mul(s, v[1]), Mul(s, v[2]), Mul(s, v[3]), Mul(s, v[4])>>

\* the RK4 step of update: lines 175-180
rk4(self, current, timestep) ==
  LET k1 == runge_kutta_func(self, current)
      k2 == runge_kutta_func(self, VAdd(current, VScale(Div(timestep, 2), k1)))
      k3 == runge_kutta_func(self, VAdd(current, VScale(Div(timestep, 2), k2)))
      k4 == runge_kutta_func(self, VAdd(current, VScale(timestep, k3)))
  IN VAdd(current,
          VScale(Div(timestep, 6),
                 VAdd(VAdd(k1, VScale(2 * SCALE, k2)),
                      VAdd(VScale(2 * SCALE, k3), k4))))

\* the guard of update
TooLarge_tenfold(timestep) == timestep > 10 * MaxTimestep

TooLarge(timestep) == timestep > MaxTimestep

\* LinkedList::push_front
push_front_as_back(list, x) == Append(list, x)

push_front(list, x) == <<x>> \o list

\* LinkedList::pop_back
pop_back(list) == SubSeq(list, 1, Len(list) - 1)

\* if self.prev_angles.len() > 144 { self.prev_angles.pop_back(); }
evict_late(list) == IF Len(list) > TraceCap + 1 THEN pop_back(list) ELSE list

evict_early(list) == IF Len(list) >= TraceCap THEN pop_back(list) ELSE list

evict(list) == IF Len(list) > TraceCap THEN pop_back(list) ELSE list

\* the four assignments that end update
store_mass(self, updated) ==
  [self EXCEPT !.mass = updated[1], !.theta2 = updated[2],
               !.angular1 = updated[3], !.angular2 = updated[4]]

store(self, updated) ==
  [self EXCEPT !.theta1 = updated[1], !.theta2 = updated[2],
               !.angular1 = updated[3], !.angular2 = updated[4]]

update_push_before_guard(self, timestep) ==
  LET current == <<self.theta1, self.theta2, self.angular1, self.angular2>>
      pushed == [self EXCEPT !.prev_angles =
                   evict(push_front(self.prev_angles,
                                    <<self.theta1, self.theta2>>))]
  IN IF TooLarge(timestep) THEN pushed
     ELSE store(pushed, rk4(self, current, timestep))

update(self, timestep) ==
  IF TooLarge(timestep) THEN self
  ELSE
    LET current == <<self.theta1, self.theta2, self.angular1, self.angular2>>
        pushed == [self EXCEPT !.prev_angles =
                     evict(push_front(self.prev_angles,
                                      <<self.theta1, self.theta2>>))]
    IN store(pushed, rk4(self, current, timestep))

\* ----------------------------------------------------------------- run
\* the population built by run()
population(ang1, ang2, off) ==
  [k \in 1..DpCount |->
     new(300 * SCALE, 300 * SCALE, SCALE,
         to_radians(ang1), to_radians(ang2 + off * (k - 1)),
         Div(255 * (k - 1), DpCount - 1))]

\* macroquad::time::get_frame_time(): the same value all through a frame
get_frame_time_since_last_call == IF i = 0 THEN frame_time ELSE 0

get_frame_time == frame_time

\* dp_vec[k].update(dt), k counted from 0
UpdateAt_first(v, k, dt) == [v EXCEPT ![1] = update(v[1], dt)]

UpdateAt_shared_trace(v, k, dt) ==
  LET u == update(v[k + 1], dt)
  IN [n \in 1..Len(v) |->
        IF n = k + 1 THEN u ELSE [v[n] EXCEPT !.prev_angles = u.prev_angles]]

UpdateAt(v, k, dt) == [v EXCEPT ![k + 1] = update(v[k + 1], dt)]

\* the frame times the host may deliver for frame number f
FrameTimes(f) == IF f % LagPeriod = 0 THEN DtSet ELSE {NominalDt}

Init ==
  \E p \in AngleSet, off \in OffsetSet :
    /\ angle1 = p[1]
    /\ angle2 = p[2]
    /\ offset = off
    /\ dp_vec = population(p[1], p[2], off)
    /\ i = DpCount
    /\ frame_time = 0
    /\ frame = 0
    /\ calls = [k \in 1..DpCount |-> 0]

\* next_frame().await returns; the loop body runs up to the update loop
NextFrame ==
  /\ i = DpCount
  /\ frame < MaxFrames
  /\ \E dt \in FrameTimes(frame + 1) : frame_time' = dt
  /\ frame' = frame + 1
  /\ i' = 0
  /\ UNCHANGED <<dp_vec, angle1, angle2, offset, calls>>

\* one iteration of  for i in 0..dp_vec.len() { dp_vec[i].update(..) }
UpdateStep ==
  /\ i < DpCount
  /\ dp_vec' = UpdateAt(dp_vec, i, get_frame_time)
  /\ calls' = [calls EXCEPT ![i + 1] =
                 IF get_frame_time <= MaxTimestep THEN @ + 1 ELSE @]
  /\ i' = i + 1
  /\ UNCHANGED <<frame_time, frame, angle1, angle2, offset>>

\* R was pressed: run() returns and main() calls it again
Restart ==
  /\ i = DpCount
  /\ \E p \in AngleSet, off \in OffsetSet :
       /\ angle1' = p[1]
       /\ angle2' = p[2]
       /\ offset' = off
       /\ dp_vec' = population(p[1], p[2], off)
  /\ frame' = 0
  /\ calls' = [k \in 1..DpCount |-> 0]
  /\ UNCHANGED <<i, frame_time>>

Next == NextFrame \/ UpdateStep \/ Restart

Spec == Init /\ [][Next]_vars

\* ------------------------------------------------------------ properties
Min(x, y) == IF x < y THEN x ELSE y

\* the dynamic part of a pendulum
Dyn(p) == <<p.theta1, p.theta2, p.angular1, p.angular2>>

AtRest(p) == Dyn(p) = <<0, 0, 0, 0>>

\* this step is one call dp_vec[i].update(..)
UpdateCall == i < DpCount /\ i' = i + 1

\* after is before with pair pushed at the front, cut back to the capacity
PushedFront(before, after, pair) ==
  after = SubSeq(<<pair>> \o before, 1, Min(Len(before) + 1, TraceCap))

\* C1: after any sequence of update calls, with any timesteps, prev_angles
\* of every pendulum holds at most 144 entries.
C1_TraceBounded ==
  \A k \in 1..DpCount : Len(dp_vec[k].prev_angles) <= TraceCap

\* a pendulum that was updated more than 144 times and once skipped
C1_Witness ==
  /\ calls[1] > TraceCap
  /\ calls[1] < frame
  /\ Len(dp_vec[1].prev_angles) = TraceCap

\* C2: an update call with a timestep above 0.02 leaves theta1, theta2,
\* angular1 and angular2 of the pendulum unchanged.
C2_SkipKeepsState ==
  [][(UpdateCall /\ frame_time > MaxTimestep)
       => Dyn(dp_vec'[i + 1]) = Dyn(dp_vec[i + 1])]_vars

\* a moving pendulum just after a skipped call
C2_Witness ==
  /\ i >= 1
  /\ frame_time > MaxTimestep
  /\ calls[1] < frame
  /\ dp_vec[1].angular1 # 0
  /\ dp_vec[1].angular2 # 0

\* C3 as stated: an update call with a timestep <= 0 or > 0.02 leaves the
\* four state values unchanged and still pushes the pre-step pair.
C3_Original ==
  [][(UpdateCall /\ (frame_time <= 0 \/ frame_time > MaxTimestep))
       => /\ Dyn(dp_vec'[i + 1]) = Dyn(dp_vec[i + 1])
          /\ PushedFront(dp_vec[i + 1].prev_angles,
                         dp_vec'[i + 1].prev_angles,
                         <<dp_vec[i + 1].theta1, dp_vec[i + 1].theta2>>)]_vars

\* C3 amended: a timestep above 0.02 leaves the pendulum unchanged, trace
\* included (nothing is pushed); a timestep of at most 0.02, zero and
\* negative ones included, pushes the pre-step pair; a timestep of zero
\* leaves the four state values unchanged.
C3_GuardBeforePush ==
  [][UpdateCall
       => /\ frame_time > MaxTimestep => dp_vec'[i + 1] = dp_vec[i + 1]
          /\ frame_time <= MaxTimestep
               => PushedFront(dp_vec[i + 1].prev_angles,
                              dp_vec'[i + 1].prev_angles,
                              <<dp_vec[i + 1].theta1, dp_vec[i + 1].theta2>>)
          /\ frame_time = 0
               => Dyn(dp_vec'[i + 1]) = Dyn(dp_vec[i + 1])]_vars

\* a moving pendulum just after a call with timestep 0, a skipped call
\* behind it: every call but the skipped one left an entry
C3_Witness ==
  /\ i >= 1
  /\ frame_time = 0
  /\ calls[1] = frame - 1
  /\ Len(dp_vec[1].prev_angles) = calls[1]
  /\ dp_vec[1].angular1 # 0
  /\ dp_vec[1].prev_angles[1] = <<dp_vec[1].theta1, dp_vec[1].theta2>>

\* C4: an update call that integrates puts the pre-step pair at the front
\* of the trace, keeps the entries behind it in their order, and drops
\* exactly the last entry when the push takes the trace past 144.
C4_NewestFirst ==
  [][(UpdateCall /\ frame_time <= MaxTimestep)
       => PushedFront(dp_vec[i + 1].prev_angles,
                      dp_vec'[i + 1].prev_angles,
                      <<dp_vec[i + 1].theta1, dp_vec[i + 1].theta2>>)]_vars

\* a full trace of a moving pendulum that has lost its first entries
C4_Witness ==
  /\ i >= 2
  /\ frame_time <= MaxTimestep
  /\ calls[2] > TraceCap + 1
  /\ Len(dp_vec[2].prev_angles) = TraceCap
  /\ dp_vec[2].prev_angles[TraceCap]
       # <<to_radians(angle1), to_radians(angle2 + offset)>>
  /\ dp_vec[2].prev_angles[TraceCap] # dp_vec[2].prev_angles[TraceCap - 1]
  /\ dp_vec[2].prev_angles[1] # dp_vec[2].prev_angles[2]

\* C5: an update call with a timestep of at most 0.02 on a pendulum at
\* rest at theta1 = theta2 = 0 leaves it at rest there.
C5_RestIsFixedPoint ==
  [][(UpdateCall /\ frame_time <= MaxTimestep /\ AtRest(dp_vec[i + 1]))
       => AtRest(dp_vec'[i + 1])]_vars

\* a pendulum still at rest after more than 144 integrating calls
C5_Witness ==
  /\ angle1 = 0
  /\ calls[1] > TraceCap
  /\ AtRest(dp_vec[1])
  /\ Len(dp_vec[1].prev_angles) = TraceCap

\* the arguments run() passes to new for pendulums j and k are the same
SameParams(j, k) ==
  to_radians(angle2 + offset * (j - 1)) = to_radians(angle2 + offset * (k - 1))

C7_GeometryFixed ==
  /\ [][i' # i
          => \A k \in 1..DpCount :
               /\ dp_vec'[k].length = dp_vec[k].length
               /\ dp_vec'[k].mass = dp_vec[k].mass
               /\ dp_vec'[k].origin_x = dp_vec[k].origin_x
               /\ dp_vec'[k].origin_y = dp_vec[k].origin_y]_vars
  /\ [](\A k \in 1..DpCount : dp_vec[k].length > 0 /\ dp_vec[k].mass > 0)

\* a moving pendulum after integrating and skipped calls
C7_Witness ==
  /\ calls[DpCount] > TraceCap
  /\ calls[DpCount] < frame
  /\ dp_vec[DpCount].theta1 # to_radians(angle1)
  /\ dp_vec[DpCount].length = SCALE
  /\ dp_vec[DpCount].mass = SCALE

\* at the start of a frame, updating j then k gives the population that
\* updating k then j gives
Commute ==
  i = 0 =>
    \A j, k \in 0..(DpCount - 1) :
      j < k =>
        LET j_first == UpdateAt(dp_vec, j, frame_time)
            k_first == UpdateAt(dp_vec, k, frame_time)
        IN UpdateAt(j_first, k, frame_time) = UpdateAt(k_first, j, frame_time)

\* C8: an update call on one pendulum leaves every other pendulum
\* unchanged, and the updates of a frame commute.
C8_Independent ==
  /\ [][UpdateCall
          => \A k \in 1..DpCount : k # i + 1 => dp_vec'[k] = dp_vec[k]]_vars
  /\ []Commute

\* two different pendulums, the first one updated in this frame and the
\* second one not yet
C8_Witness ==
  /\ i = 1
  /\ offset # 0
  /\ frame_time <= MaxTimestep
  /\ calls[1] = calls[2] + 1
  /\ calls[2] > TraceCap
  /\ Dyn(dp_vec[1]) # Dyn(dp_vec[2])
  /\ dp_vec[1].prev_angles # dp_vec[2].prev_angles

\* C9: every update call of a frame gets the frame time of that frame, so
\* at the end of a frame all pendulums took the step or all skipped it.
C9_SameDt ==
  /\ [][UpdateCall
          => /\ dp_vec'[i + 1] = update(dp_vec[i + 1], frame_time)
             /\ frame_time' = frame_time]_vars
  /\ [](i = DpCount => \A j, k \in 1..DpCount : calls[j] = calls[k])

\* the end of the first irregular frame, skipped by all pendulums
C9_Witness ==
  /\ i = DpCount
  /\ frame = LagPeriod
  /\ frame_time > MaxTimestep
  /\ \A k \in 1..DpCount : calls[k] = frame - 1
  /\ dp_vec[1].angular2 # 0

\* C10: the trace of a pendulum holds min(n, 144) entries, n the number
\* of its update calls with a timestep of at most 0.02.
C10_TraceLength ==
  \A k \in 1..DpCount :
    Len(dp_vec[k].prev_angles) = Min(calls[k], TraceCap)

\* the end of a frame past the capacity, exactly one skipped frame behind it
C10_Witness ==
  /\ i = DpCount
  /\ calls[DpCount] > TraceCap
  /\ calls[DpCount] = frame - 1
  /\ Len(dp_vec[DpCount].prev_angles) = TraceCap

====
